---- MODULE Spec2Model ----
(***************************************************************************)
(* Model of rag-api/main.py: the runtime configuration, the chunker, the   *)
(* embedding client and the three ingestion entry points with their        *)
(* batched embed/upsert loops.                                             *)
(*                                                                         *)
(* Texts, file names and URLs are sequences of one-character strings.      *)
(* An embedding vector is represented by its length and by the prompt the  *)
(* embedding service computed it from: [dim, zero, prompt].                *)
(***************************************************************************)
EXTENDS Integers, Sequences, FiniteSets, TLC

\* ---- bounds of the model ----
MaxLen == 5
MaxDocs == 2
MaxBatch == 2
MaxSize == 3
MaxList == 3

\* ---- program constants ----
DEFAULT_CHUNK_SIZE == 800
DEFAULT_CHUNK_OVERLAP == 120
DEFAULT_EMBED_BATCH == 32
DEFAULT_UPSERT_BATCH == 256
MIN_CHUNK_SIZE == 128
ZERO_DIM == 768
BAD_GATEWAY == 502

VARIABLES
  RUNTIME,       \* the RUNTIME dict
  serviceDim,    \* length of the vectors the embedding service returns
  collDim,       \* vector size of the collection COLL, 0 while it does not exist
  store,         \* points held by the collection, in upsert order
  lastUp,        \* points of the latest qdrant.upsert call
  embedCalls,    \* prompts of the POSTs to /api/embeddings, in order
  pc,            \* position of the service / of the ingestion request
  req,           \* the ingestion request: kind, project, docs
  di,            \* number of documents of req.docs already visited
  outcomes,      \* per visited document: TRUE iff its bytes were obtained
  all_chunks,    \* all_chunks of the entry point
  meta,          \* meta of the entry point
  fetched,       \* fetched counter of the entry point
  total_points,  \* total_points counter of the entry point
  embedGen,      \* generator chunk_list(all_chunks, EMBED_BATCH)
  upGen,         \* generator chunk_list(pts, UPSERT_BATCH)
  resp,          \* response of the ingestion request
  cfgResp,       \* response of the latest /config call
  fn             \* latest direct call of a helper: arguments and result

vars == <<RUNTIME, serviceDim, collDim, store, lastUp, embedCalls, pc, req, di,
          outcomes, all_chunks, meta, fetched, total_points, embedGen, upGen,
          resp, cfgResp, fn>>

ingestVars == <<serviceDim, collDim, store, lastUp, embedCalls, pc, req, di,
                outcomes, all_chunks, meta, fetched, total_points, embedGen,
                upGen, resp>>

\* ---- arithmetic and Python slicing ----
Min(a, b) == IF a <= b THEN a ELSE b

Max(a, b) == IF a >= b THEN a ELSE b

\* s[i:j] for 0 <= i, 0 <= j (Python clamps j to len(s))
Slice(s, i, j) == SubSeq(s, i + 1, Min(j, Len(s)))

\* ---- texts ----
Whitespace == {" ", "\t", "\n"}

\* "text and text.strip()" of embed_batch
NonBlank(text) == \E k \in 1..Len(text) : text[k] \notin Whitespace

Alphabet == <<"a", " ", "b">>

\* the text of length n that cycles through Alphabet from offset k
Cyc(n, k) == [j \in 1..n |-> Alphabet[((j - 1 + k) % 3) + 1]]


\* ---- chunks(s, size, overlap) ----
RECURSIVE chunksLoop(_, _, _, _)
chunksLoop(s, size, step, i) ==
  IF i < Len(s)
    THEN <<Slice(s, i, i + size)>> \o chunksLoop(s, size, step, i + step)
    ELSE <<>>

\* a chunker that ignores the overlap when it advances
chunksNoOverlap(s, size, overlap) ==
  IF s = <<>> THEN <<>> ELSE chunksLoop(s, size, Max(1, size), 0)

\* a chunker that advances past the window by the overlap
chunksGap(s, size, overlap) ==
  IF s = <<>> THEN <<>> ELSE chunksLoop(s, size, Max(1, size + overlap), 0)

RECURSIVE chunksStopLoop(_, _, _, _)
chunksStopLoop(s, size, step, i) ==
  IF i < Len(s)
    THEN <<Slice(s, i, i + size)>> \o
         (IF i + size >= Len(s) THEN <<>> ELSE chunksStopLoop(s, size, step, i + step))
    ELSE <<>>

\* a chunker that stops as soon as a window reaches the end of the text
chunksStopAtEnd(s, size, overlap) ==
  IF s = <<>> THEN <<>> ELSE chunksStopLoop(s, size, Max(1, size - overlap), 0)

chunks(s, size, overlap) ==
  IF s = <<>> THEN <<>> ELSE chunksLoop(s, size, Max(1, size - overlap), 0)

\* ---- chunk_list(items, n): the generator and its position ----
Gen(items, n) == [items |-> items, n |-> n, i |-> 0]

GenDone(g) == g.i >= Len(g.items)

GenNext(g) == Slice(g.items, g.i, g.i + g.n)

GenAdvance(g) == [g EXCEPT !.i = g.i + g.n]

\* ---- embed_batch(text_list) ----
\* the vector the embedding service returns for a prompt
Embedding(text, dim) == [dim |-> dim, zero |-> FALSE, prompt |-> text]

ZeroVector == [dim |-> ZERO_DIM, zero |-> TRUE, prompt |-> <<>>]

\* the non-blank texts among the first k of text_list: the prompts posted
RECURSIVE Prompts(_, _)
Prompts(text_list, k) ==
  IF k = 0 THEN <<>>
  ELSE Prompts(text_list, k - 1) \o
       (IF NonBlank(text_list[k]) THEN <<text_list[k]>> ELSE <<>>)

\* an embed_batch that skips blank texts instead of padding with zeros
embed_batchSkip(text_list, dim, failAt) ==
  IF failAt \in 1..Len(text_list) /\ NonBlank(text_list[failAt])
    THEN [raised |-> TRUE, vecs |-> <<>>, calls |-> Prompts(text_list, failAt)]
    ELSE [raised |-> FALSE,
          vecs |-> [k \in 1..Len(Prompts(text_list, Len(text_list))) |->
                      Embedding(Prompts(text_list, Len(text_list))[k], dim)],
          calls |-> Prompts(text_list, Len(text_list))]

\* failAt is the position of the text whose POST raises (0: none does);
\* the result carries the POSTs made, the last of them the failing one
embed_batch(text_list, dim, failAt) ==
  IF failAt \in 1..Len(text_list) /\ NonBlank(text_list[failAt])
    THEN [raised |-> TRUE, vecs |-> <<>>, calls |-> Prompts(text_list, failAt)]
    ELSE [raised |-> FALSE,
          vecs |-> [k \in 1..Len(text_list) |->
                      IF NonBlank(text_list[k])
                        THEN Embedding(text_list[k], dim)
                        ELSE ZeroVector],
          calls |-> Prompts(text_list, Len(text_list))]

\* ---- RUNTIME and /config ----
Fields == {"EMBED_BATCH", "UPSERT_BATCH", "CHUNK_SIZE", "CHUNK_OVERLAP"}

\* RUNTIME as built from the defaults of the environment variables
DefaultRuntime ==
  [EMBED_BATCH |-> DEFAULT_EMBED_BATCH, UPSERT_BATCH |-> DEFAULT_UPSERT_BATCH,
   CHUNK_SIZE |-> DEFAULT_CHUNK_SIZE, CHUNK_OVERLAP |-> DEFAULT_CHUNK_OVERLAP]

\* RUNTIME of a deployment that sets the smallest values the patch accepts
MinimalRuntime ==
  [EMBED_BATCH |-> 1, UPSERT_BATCH |-> 1,
   CHUNK_SIZE |-> MIN_CHUNK_SIZE, CHUNK_OVERLAP |-> 0]

\* RUNTIME of a deployment whose environment sets small chunks and batches
SmallRuntime ==
  [EMBED_BATCH |-> MaxBatch, UPSERT_BATCH |-> 1,
   CHUNK_SIZE |-> 2, CHUNK_OVERLAP |-> 1]

\* an Optional[int] field of ConfigPatch: <<>> is None, <<v>> is the value v
Opt(S) == {<<>>} \cup {<<v>> : v \in S}

NoPatch ==
  [EMBED_BATCH |-> <<>>, UPSERT_BATCH |-> <<>>, CHUNK_SIZE |-> <<>>, CHUNK_OVERLAP |-> <<>>]

\* the patches POSTed to /config on its own
Patches ==
  [EMBED_BATCH : Opt({0, MaxBatch}), UPSERT_BATCH : Opt({0, MaxBatch}),
   CHUNK_SIZE : Opt({MIN_CHUNK_SIZE - 1, MIN_CHUNK_SIZE}),
   CHUNK_OVERLAP : Opt({-1, 0, MIN_CHUNK_SIZE - 1, MIN_CHUNK_SIZE})]

\* the patches POSTed to /config while an ingestion request is in flight:
\* each sets one of the two batch sizes
BatchPatches ==
  {[NoPatch EXCEPT !.EMBED_BATCH = <<v>>] : v \in 1..MaxBatch} \cup
  {[NoPatch EXCEPT !.UPSERT_BATCH = <<v>>] : v \in 1..MaxBatch}

\* a set_config that checks the overlap against the chunk size it found
set_configStaleSize(R, p) ==
  LET R1 == IF p.EMBED_BATCH # <<>> /\ p.EMBED_BATCH[1] > 0
              THEN [R EXCEPT !.EMBED_BATCH = p.EMBED_BATCH[1]] ELSE R
      R2 == IF p.UPSERT_BATCH # <<>> /\ p.UPSERT_BATCH[1] > 0
              THEN [R1 EXCEPT !.UPSERT_BATCH = p.UPSERT_BATCH[1]] ELSE R1
      R3 == IF p.CHUNK_SIZE # <<>> /\ p.CHUNK_SIZE[1] >= MIN_CHUNK_SIZE
              THEN [R2 EXCEPT !.CHUNK_SIZE = p.CHUNK_SIZE[1]] ELSE R2
  IN  IF p.CHUNK_OVERLAP # <<>> /\ 0 <= p.CHUNK_OVERLAP[1]
                                /\ p.CHUNK_OVERLAP[1] < R.CHUNK_SIZE
        THEN [R3 EXCEPT !.CHUNK_OVERLAP = p.CHUNK_OVERLAP[1]] ELSE R3

\* RUNTIME after set_config(p) has run on RUNTIME = R
set_config(R, p) ==
  LET R1 == IF p.EMBED_BATCH # <<>> /\ p.EMBED_BATCH[1] > 0
              THEN [R EXCEPT !.EMBED_BATCH = p.EMBED_BATCH[1]] ELSE R
      R2 == IF p.UPSERT_BATCH # <<>> /\ p.UPSERT_BATCH[1] > 0
              THEN [R1 EXCEPT !.UPSERT_BATCH = p.UPSERT_BATCH[1]] ELSE R1
      R3 == IF p.CHUNK_SIZE # <<>> /\ p.CHUNK_SIZE[1] >= MIN_CHUNK_SIZE
              THEN [R2 EXCEPT !.CHUNK_SIZE = p.CHUNK_SIZE[1]] ELSE R2
  IN  IF p.CHUNK_OVERLAP # <<>> /\ 0 <= p.CHUNK_OVERLAP[1]
                                /\ p.CHUNK_OVERLAP[1] < R3.CHUNK_SIZE
        THEN [R3 EXCEPT !.CHUNK_OVERLAP = p.CHUNK_OVERLAP[1]] ELSE R3

\* body of the response of get_config
get_config(R) ==
  [EMBED_BATCH |-> R.EMBED_BATCH, UPSERT_BATCH |-> R.UPSERT_BATCH,
   CHUNK_SIZE |-> R.CHUNK_SIZE, CHUNK_OVERLAP |-> R.CHUNK_OVERLAP,
   EMBED_MODEL |-> "nomic-embed-text:latest", GEN_MODEL |-> "llama3.1:8b",
   COLLECTION |-> "docs"]

NoCall == [op |-> "none"]

\* POST /config with body p
SetConfig(p) ==
  /\ pc # "boot"
  /\ RUNTIME' = set_config(RUNTIME, p)
  /\ cfgResp' = [ok |-> TRUE,
                 EMBED_BATCH |-> RUNTIME'.EMBED_BATCH,
                 UPSERT_BATCH |-> RUNTIME'.UPSERT_BATCH,
                 CHUNK_SIZE |-> RUNTIME'.CHUNK_SIZE,
                 CHUNK_OVERLAP |-> RUNTIME'.CHUNK_OVERLAP]
  /\ UNCHANGED <<ingestVars, fn>>

\* GET /config
GetConfig ==
  /\ pc # "boot"
  /\ cfgResp' = get_config(RUNTIME)
  /\ UNCHANGED <<RUNTIME, ingestVars, fn>>

\* ---- startup ----
EmbedDims == {384, ZERO_DIM}

NoRequest == [kind |-> "none", project |-> "", docs |-> <<>>]

NoGen == Gen(<<>>, 1)

InitWith(envs) ==
  /\ RUNTIME \in envs
  /\ serviceDim \in EmbedDims
  /\ collDim = 0
  /\ store = <<>>
  /\ lastUp = <<>>
  /\ embedCalls = <<>>
  /\ pc = "boot"
  /\ req = NoRequest
  /\ di = 0
  /\ outcomes = <<>>
  /\ all_chunks = <<>>
  /\ meta = <<>>
  /\ fetched = 0
  /\ total_points = 0
  /\ embedGen = NoGen
  /\ upGen = NoGen
  /\ resp = NoCall
  /\ cfgResp = NoCall
  /\ fn = NoCall

\* _start: probe the embedding dimension, create the collection if absent
Startup ==
  /\ pc = "boot"
  /\ embedCalls' = Append(embedCalls, <<"dimension probe">>)
  /\ collDim' = IF collDim = 0 THEN Embedding(<<"dimension probe">>, serviceDim).dim
                ELSE collDim
  /\ pc' = "idle"
  /\ UNCHANGED <<RUNTIME, serviceDim, store, lastUp, req, di, outcomes, all_chunks,
                 meta, fetched, total_points, embedGen, upGen, resp, cfgResp, fn>>

\* ---- the configuration endpoints on their own ----
InitConfig == InitWith({DefaultRuntime, MinimalRuntime})

NextConfig ==
  \/ Startup
  \/ \E p \in Patches : SetConfig(p)
  \/ GetConfig

SpecConfig == InitConfig /\ [][NextConfig]_vars

\* the constraints of the data model on RuntimeConfig
ValidConfig(R) ==
  /\ R.CHUNK_SIZE >= MIN_CHUNK_SIZE
  /\ 0 <= R.CHUNK_OVERLAP
  /\ R.CHUNK_OVERLAP < R.CHUNK_SIZE
  /\ R.EMBED_BATCH > 0
  /\ R.UPSERT_BATCH > 0

\* C2: from a valid RuntimeConfig, every configuration reached through
\* POST /config patches satisfies CHUNK_SIZE >= 128,
\* 0 <= CHUNK_OVERLAP < CHUNK_SIZE, EMBED_BATCH > 0 and UPSERT_BATCH > 0.
C2_ConfigStaysValid == ValidConfig(RUNTIME)

\* what the contract of /config says one field becomes
Patched(old, field, accepted) ==
  IF field # <<>> /\ accepted THEN field[1] ELSE old

\* what the contract of /config says RUNTIME becomes
Contract(R, p) ==
  LET size == Patched(R.CHUNK_SIZE, p.CHUNK_SIZE,
                      p.CHUNK_SIZE # <<>> /\ p.CHUNK_SIZE[1] >= 128)
  IN  [EMBED_BATCH |-> Patched(R.EMBED_BATCH, p.EMBED_BATCH,
                               p.EMBED_BATCH # <<>> /\ p.EMBED_BATCH[1] > 0),
       UPSERT_BATCH |-> Patched(R.UPSERT_BATCH, p.UPSERT_BATCH,
                                p.UPSERT_BATCH # <<>> /\ p.UPSERT_BATCH[1] > 0),
       CHUNK_SIZE |-> size,
       CHUNK_OVERLAP |-> Patched(R.CHUNK_OVERLAP, p.CHUNK_OVERLAP,
                                 p.CHUNK_OVERLAP # <<>> /\ 0 <= p.CHUNK_OVERLAP[1]
                                                        /\ p.CHUNK_OVERLAP[1] < size)]

\* C5: each field of a patch is applied on its own: the batch sizes iff > 0,
\* CHUNK_SIZE iff >= 128, CHUNK_OVERLAP iff 0 <= value < the CHUNK_SIZE left by
\* the same patch; other fields keep their value, the response has ok = true,
\* and a GET /config returns the values in force.
C5_PatchPerField ==
  [][ /\ \A p \in Patches :
           SetConfig(p) =>
             /\ RUNTIME' = Contract(RUNTIME, p)
             /\ cfgResp'.ok = TRUE
             /\ \A f \in Fields : cfgResp'[f] = RUNTIME'[f]
      /\ GetConfig =>
           /\ RUNTIME' = RUNTIME
           /\ \A f \in Fields : cfgResp'[f] = RUNTIME[f] ]_vars

\* a patch has moved the default configuration to the smallest chunk size
\* with the largest overlap that fits it, and a GET has read that back
C5_Witness ==
  /\ "COLLECTION" \in DOMAIN cfgResp
  /\ cfgResp.CHUNK_SIZE = MIN_CHUNK_SIZE
  /\ cfgResp.CHUNK_OVERLAP = MIN_CHUNK_SIZE - 1
  /\ cfgResp.EMBED_BATCH = DEFAULT_EMBED_BATCH
  /\ cfgResp.UPSERT_BATCH = MaxBatch

\* ---- documents and requests ----
\* u.split("?")[0]
RECURSIVE BeforeQuery(_)
BeforeQuery(u) ==
  IF u = <<>> \/ Head(u) = "?" THEN <<>> ELSE <<Head(u)>> \o BeforeQuery(Tail(u))

\* u.rstrip("/")
RECURSIVE RStripSlash(_)
RStripSlash(u) ==
  IF u # <<>> /\ u[Len(u)] = "/" THEN RStripSlash(SubSeq(u, 1, Len(u) - 1)) ELSE u

\* u.split("/")[-1]
RECURSIVE LastSegment(_)
LastSegment(u) ==
  IF u = <<>> \/ u[Len(u)] = "/" THEN <<>>
  ELSE LastSegment(SubSeq(u, 1, Len(u) - 1)) \o <<u[Len(u)]>>

\* fname of ingest_urls
FnameOfUrl(u) ==
  LET seg == LastSegment(RStripSlash(BeforeQuery(u)))
  IN  IF seg = <<>> THEN <<"downloaded">> ELSE seg

Projects == {"default", "p1"}

Kinds == {"ingest", "urls", "sharepoint"}

SeqsUpTo(S, n) == UNION {[1..k -> S] : k \in 0..n}

\* documents: where each comes from (a file name or a URL) and the text that
\* extract_text returns for its bytes
Files ==
  { [src |-> <<"a">>, text |-> <<"a", " ">>],
    [src |-> <<"b">>, text |-> <<"b">>] }

Pages ==
  { [src |-> <<"h", "/", "a">>, text |-> <<"a", " ">>],
    [src |-> <<"g", "/", "a", "/", "?", "b">>, text |-> <<"b">>],
    [src |-> <<"/">>, text |-> <<>>] }

DocsOf(kind) == IF kind = "urls" THEN Pages ELSE Files

\* the file name the entry point gives a document
FileName(kind, src) == IF kind = "urls" THEN FnameOfUrl(src) ELSE src

\* what ingest_bytes appends to chunks_out and to meta_out
ingest_bytes(filename, text, project, R) ==
  LET chs == chunks(text, R.CHUNK_SIZE, R.CHUNK_OVERLAP)
  IN  [chunks |-> chs,
       meta |-> [k \in 1..Len(chs) |-> [project |-> project, file |-> filename]]]

\* a metadata lookup by the position inside the embed batch
MetaAtInBatch(kind, m, total, i) == m[i + 1]

\* the metadata entry paired with element i (from 0) of an embed batch
MetaAt(kind, m, total, i) ==
  IF kind = "ingest"
    THEN (IF total + i < Len(m) THEN m[total + i + 1] ELSE m[Len(m)])
    ELSE m[total + i + 1]

\* pts of one embed batch
Points(kind, vecs, ch_batch, m, total) ==
  [k \in 1..Len(vecs) |->
     LET e == MetaAt(kind, m, total, k - 1)
     IN  [id |-> total + k, vector |-> vecs[k],
          payload |-> [text |-> ch_batch[k], project |-> e.project, file |-> e.file]]]

\* an ingestion request arrives
StartRequest(kind, project, docs) ==
  /\ pc = "idle"
  /\ req' = [kind |-> kind, project |-> project, docs |-> docs]
  /\ pc' = IF kind = "sharepoint" THEN "resolve" ELSE "accumulate"
  /\ UNCHANGED <<RUNTIME, serviceDim, collDim, store, lastUp, embedCalls, di, outcomes,
                 all_chunks, meta, fetched, total_points, embedGen, upGen, resp,
                 cfgResp, fn>>

\* ingest_sharepoint: resolve the share and list its files
GraphResolve(ok) ==
  /\ pc = "resolve"
  /\ IF ok
       THEN pc' = "accumulate" /\ resp' = resp
       ELSE pc' = "aborted" /\ resp' = [ok |-> FALSE, status |-> BAD_GATEWAY]
  /\ UNCHANGED <<RUNTIME, serviceDim, collDim, store, lastUp, embedCalls, req, di,
                 outcomes, all_chunks, meta, fetched, total_points, embedGen, upGen,
                 cfgResp, fn>>

\* ingest: read the next uploaded file and chunk it
ReadFile ==
  /\ pc = "accumulate"
  /\ req.kind = "ingest"
  /\ di < Len(req.docs)
  /\ LET d == req.docs[di + 1]
         r == ingest_bytes(d.src, d.text, req.project, RUNTIME)
     IN  /\ all_chunks' = all_chunks \o r.chunks
         /\ meta' = meta \o r.meta
  /\ di' = di + 1
  /\ outcomes' = Append(outcomes, TRUE)
  /\ UNCHANGED <<RUNTIME, serviceDim, collDim, store, lastUp, embedCalls, pc, req,
                 fetched, total_points, embedGen, upGen, resp, cfgResp, fn>>

\* a fetch loop that counts and chunks a document whatever the status
FetchAnyStatus(ok) ==
  /\ pc = "accumulate"
  /\ req.kind \in {"urls", "sharepoint"}
  /\ di < Len(req.docs)
  /\ LET d == req.docs[di + 1]
         r == ingest_bytes(FileName(req.kind, d.src), d.text, req.project, RUNTIME)
     IN  /\ all_chunks' = all_chunks \o r.chunks
         /\ meta' = meta \o r.meta
         /\ fetched' = fetched + 1
  /\ di' = di + 1
  /\ outcomes' = Append(outcomes, ok)
  /\ UNCHANGED <<RUNTIME, serviceDim, collDim, store, lastUp, embedCalls, pc, req,
                 total_points, embedGen, upGen, resp, cfgResp, fn>>

\* ingest_urls / ingest_sharepoint: fetch the next document; chunk it when the
\* fetch returned 200, skip it otherwise
Fetch(ok) ==
  /\ pc = "accumulate"
  /\ req.kind \in {"urls", "sharepoint"}
  /\ di < Len(req.docs)
  /\ LET d == req.docs[di + 1]
         r == ingest_bytes(FileName(req.kind, d.src), d.text, req.project, RUNTIME)
     IN  IF ok
           THEN /\ all_chunks' = all_chunks \o r.chunks
                /\ meta' = meta \o r.meta
                /\ fetched' = fetched + 1
           ELSE UNCHANGED <<all_chunks, meta, fetched>>
  /\ di' = di + 1
  /\ outcomes' = Append(outcomes, ok)
  /\ UNCHANGED <<RUNTIME, serviceDim, collDim, store, lastUp, embedCalls, pc, req,
                 total_points, embedGen, upGen, resp, cfgResp, fn>>

\* ingest_sharepoint: the download of the next file raises (no try around it)
DownloadRaises ==
  /\ pc = "accumulate"
  /\ req.kind = "sharepoint"
  /\ di < Len(req.docs)
  /\ pc' = "aborted"
  /\ resp' = [ok |-> FALSE, status |-> 500]
  /\ UNCHANGED <<RUNTIME, serviceDim, collDim, store, lastUp, embedCalls, req, di,
                 outcomes, all_chunks, meta, fetched, total_points, embedGen, upGen,
                 cfgResp, fn>>

\* all documents visited: enter the loop over embed batches
BeginEmbed ==
  /\ pc = "accumulate"
  /\ di = Len(req.docs)
  /\ total_points' = 0
  /\ embedGen' = Gen(all_chunks, RUNTIME.EMBED_BATCH)
  /\ pc' = "embed"
  /\ UNCHANGED <<RUNTIME, serviceDim, collDim, store, lastUp, embedCalls, req, di,
                 outcomes, all_chunks, meta, fetched, upGen, resp, cfgResp, fn>>

\* one iteration of the outer loop up to the inner loop: embed the batch and
\* build its points; an exception of embed_batch ends the request
EmbedStep(failAt) ==
  /\ pc = "embed"
  /\ ~GenDone(embedGen)
  /\ LET ch_batch == GenNext(embedGen)
         r == embed_batch(ch_batch, serviceDim, failAt)
     IN  /\ embedCalls' = embedCalls \o r.calls
         /\ IF r.raised
              THEN /\ pc' = "failed"
                   /\ resp' = [ok |-> FALSE, status |-> 500]
                   /\ UNCHANGED <<embedGen, upGen>>
              ELSE /\ pc' = "upsert"
                   /\ embedGen' = GenAdvance(embedGen)
                   /\ upGen' = Gen(Points(req.kind, r.vecs, ch_batch, meta, total_points),
                                   RUNTIME.UPSERT_BATCH)
                   /\ resp' = resp
  /\ UNCHANGED <<RUNTIME, serviceDim, collDim, store, lastUp, req, di, outcomes,
                 all_chunks, meta, fetched, total_points, cfgResp, fn>>

\* an upsert handler that deletes the request's points when a call fails
UpsertRollback(ok) ==
  /\ pc = "upsert"
  /\ ~GenDone(upGen)
  /\ lastUp' = GenNext(upGen)
  /\ IF ok
       THEN /\ store' = store \o GenNext(upGen)
            /\ total_points' = total_points + Len(GenNext(upGen))
            /\ upGen' = GenAdvance(upGen)
            /\ pc' = IF GenDone(upGen') THEN "embed" ELSE "upsert"
            /\ resp' = resp
       ELSE /\ pc' = "failed"
            /\ store' = <<>>
            /\ resp' = [ok |-> FALSE, status |-> 500]
            /\ UNCHANGED <<total_points, upGen>>
  /\ UNCHANGED <<RUNTIME, serviceDim, collDim, embedCalls, req, di, outcomes,
                 all_chunks, meta, fetched, embedGen, cfgResp, fn>>

\* one iteration of the inner loop: upsert the next sub-batch; an exception
\* of qdrant.upsert ends the request
UpsertStep(ok) ==
  /\ pc = "upsert"
  /\ ~GenDone(upGen)
  /\ lastUp' = GenNext(upGen)
  /\ IF ok
       THEN /\ store' = store \o GenNext(upGen)
            /\ total_points' = total_points + Len(GenNext(upGen))
            /\ upGen' = GenAdvance(upGen)
            /\ pc' = IF GenDone(upGen') THEN "embed" ELSE "upsert"
            /\ resp' = resp
       ELSE /\ pc' = "failed"
            /\ resp' = [ok |-> FALSE, status |-> 500]
            /\ UNCHANGED <<store, total_points, upGen>>
  /\ UNCHANGED <<RUNTIME, serviceDim, collDim, embedCalls, req, di, outcomes,
                 all_chunks, meta, fetched, embedGen, cfgResp, fn>>

\* the outer loop is exhausted: return the summary
Respond ==
  /\ pc = "embed"
  /\ GenDone(embedGen)
  /\ pc' = "done"
  /\ resp' = IF req.kind = "ingest"
               THEN [ok |-> TRUE, project |-> req.project, chunks |-> total_points,
                     files |-> [k \in 1..Len(req.docs) |-> req.docs[k].src]]
               ELSE [ok |-> TRUE, project |-> req.project, fetched |-> fetched,
                     chunks |-> total_points]
  /\ UNCHANGED <<RUNTIME, serviceDim, collDim, store, lastUp, embedCalls, req, di,
                 outcomes, all_chunks, meta, fetched, total_points, embedGen, upGen,
                 cfgResp, fn>>

Init == InitWith({SmallRuntime})

Next ==
  \/ Startup
  \/ \E kind \in Kinds, project \in Projects :
       \E docs \in SeqsUpTo(DocsOf(kind), MaxDocs) : StartRequest(kind, project, docs)
  \/ \E ok \in BOOLEAN : GraphResolve(ok)
  \/ ReadFile
  \/ \E ok \in BOOLEAN : Fetch(ok)
  \/ DownloadRaises
  \/ BeginEmbed
  \/ \E failAt \in 0..MaxBatch : EmbedStep(failAt)
  \/ \E ok \in BOOLEAN : UpsertStep(ok)
  \/ Respond
  \/ \E p \in BatchPatches : SetConfig(p)

Spec == Init /\ [][Next]_vars


\* ---- what a request is expected to store ----
\* the vector embed_batch is to return for a chunk
VectorOf(text) ==
  IF \A k \in 1..Len(text) : text[k] \in Whitespace
    THEN ZeroVector ELSE Embedding(text, serviceDim)

\* the payloads of the chunks of the first k documents of the request, those
\* whose bytes were not obtained left out
RECURSIVE Produced(_)
Produced(k) ==
  IF k = 0 THEN <<>>
  ELSE LET chs == chunks(req.docs[k].text, RUNTIME.CHUNK_SIZE, RUNTIME.CHUNK_OVERLAP)
       IN  Produced(k - 1) \o
           (IF outcomes[k]
              THEN [j \in 1..Len(chs) |->
                      [text |-> chs[j], project |-> req.project,
                       file |-> FileName(req.kind, req.docs[k].src)]]
              ELSE <<>>)

Payloads(points) == [k \in 1..Len(points) |-> points[k].payload]

NumTrue(bs) == Cardinality({k \in 1..Len(bs) : bs[k]})

\* C3: every point handed to qdrant.upsert has a vector as long as the
\* collection's dimension, the length of the startup probe's vector.
C3_VectorsFitCollection ==
  \A k \in 1..Len(lastUp) : lastUp[k].vector.dim = collDim

\* C4 as stated: a /ingest_urls call whose services work returns ok with
\* fetched = the number of URLs fetched and chunks = the chunks of the fetched
\* documents, a failed URL does not abort it, and no stored point carries the
\* file name of a failed URL.
C4_NoFileOfFailedUrl ==
  req.kind = "urls" =>
    /\ pc # "aborted"
    /\ pc = "failed" => di = Len(req.docs)
    /\ pc = "done" =>
         /\ resp.ok = TRUE
         /\ resp.fetched = NumTrue(outcomes)
         /\ resp.chunks = Len(Produced(Len(req.docs)))
         /\ \A k \in 1..Len(store), j \in 1..Len(req.docs) :
              ~outcomes[j] => store[k].payload.file # FnameOfUrl(req.docs[j].src)

\* C4 as amended: the same, but the stored points are exactly the chunks of
\* the fetched documents, each under the file name of the URL it came from.
C4_OnlyFetchedDocuments ==
  req.kind = "urls" =>
    /\ pc # "aborted"
    /\ pc = "failed" => di = Len(req.docs)
    /\ pc = "done" =>
         /\ resp.ok = TRUE
         /\ resp.fetched = NumTrue(outcomes)
         /\ resp.chunks = Len(Produced(Len(req.docs)))
         /\ Payloads(store) = Produced(Len(req.docs))

\* a /ingest_urls call has returned after one URL failed and another, which
\* produced points, was fetched
C4_Witness ==
  /\ pc = "done"
  /\ req.kind = "urls"
  /\ store # <<>>
  /\ \E j, k \in 1..Len(outcomes) : ~outcomes[j] /\ outcomes[k]

\* C9: whatever the batch sizes, and whatever patches arrive on the way, the
\* k-th accumulated chunk is stored once, as the k-th point, with its text,
\* the k-th metadata entry (its document's) and its embedding; the returned
\* count is the number of accumulated chunks.
C9_PointsAligned ==
  /\ Len(store) <= Len(all_chunks)
  /\ \A k \in 1..Len(store) :
       /\ store[k].payload.text = all_chunks[k]
       /\ store[k].payload.project = meta[k].project
       /\ store[k].payload.file = meta[k].file
       /\ store[k].vector = VectorOf(all_chunks[k])
       /\ \A j \in 1..Len(store) : store[j].id = store[k].id => j = k
  /\ pc \in {"embed", "upsert", "done", "failed"} =>
       /\ Len(meta) = Len(all_chunks)
       /\ [k \in 1..Len(meta) |->
             [text |-> all_chunks[k], project |-> meta[k].project, file |-> meta[k].file]]
            = Produced(Len(req.docs))
  /\ pc = "done" =>
       /\ Len(store) = Len(all_chunks)
       /\ resp.chunks = Len(all_chunks)

\* a request of two documents with different names has been stored in more
\* than one embed batch, after a patch changed a batch size
C9_Witness ==
  /\ pc = "done"
  /\ Len(store) >= 3
  /\ store[1].payload.file # store[Len(store)].payload.file
  /\ embedGen.n < Len(store)
  /\ "ok" \in DOMAIN cfgResp
  /\ \E k \in 1..Len(store) : store[k].vector.zero

\* all the points the request stores when nothing fails
ExpectedPoints ==
  [k \in 1..Len(all_chunks) |->
     [id |-> k, vector |-> VectorOf(all_chunks[k]),
      payload |-> [text |-> all_chunks[k], project |-> meta[k].project,
                   file |-> meta[k].file]]]

\* C10: a failed embedding call or upsert ends the request in failure, no
\* later embed batch or upsert of the request is issued, the points stored
\* before the failure stay, and the store holds a strict prefix of the
\* request's points.
C10_FailureKeepsPrefix ==
  [][ /\ (pc' = "failed" /\ pc # "failed") =>
           /\ resp'.ok = FALSE
           /\ store' = store
           /\ Len(store') < Len(all_chunks')
           /\ store' = SubSeq(ExpectedPoints', 1, Len(store'))
      /\ pc = "failed" =>
           /\ pc' = "failed"
           /\ resp' = resp
           /\ store' = store
           /\ lastUp' = lastUp
           /\ embedCalls' = embedCalls ]_vars

\* an upsert has failed after an earlier one of the request had stored points
C10_Witness ==
  /\ pc = "failed"
  /\ store # <<>>
  /\ lastUp # <<>>
  /\ lastUp[1].id > Len(store)

\* ---- one upload under the default configuration ----
DefaultFiles ==
  [src : {<<"a">>, <<"b">>},
   text : {Cyc(n, k) : n \in {DEFAULT_CHUNK_SIZE,
                             2 * DEFAULT_CHUNK_SIZE - DEFAULT_CHUNK_OVERLAP},
                       k \in 0..2}]

InitDefault == InitWith({DefaultRuntime})

NextDefault ==
  \/ Startup
  \/ \E project \in Projects, d \in DefaultFiles : StartRequest("ingest", project, <<d>>)
  \/ ReadFile
  \/ BeginEmbed
  \/ \E failAt \in 0..MaxBatch : EmbedStep(failAt)
  \/ \E ok \in BOOLEAN : UpsertStep(ok)
  \/ Respond

SpecDefault == InitDefault /\ [][NextDefault]_vars

\* POST /ingest of one file of 2*CHUNK_SIZE - CHUNK_OVERLAP characters under
\* the default configuration has returned
OneDefaultUpload ==
  /\ pc = "done"
  /\ req.kind = "ingest"
  /\ Len(req.docs) = 1
  /\ RUNTIME.CHUNK_SIZE = 800
  /\ RUNTIME.CHUNK_OVERLAP = 120
  /\ Len(req.docs[1].text) = 2 * RUNTIME.CHUNK_SIZE - RUNTIME.CHUNK_OVERLAP

\* C1 as stated: such an upload stores exactly 2 points, tagged with the
\* given project and the uploaded file name, and returns chunks = 2.
C1_TwoPoints ==
  OneDefaultUpload =>
    /\ Len(store) = 2
    /\ resp.chunks = 2
    /\ \A k \in 1..Len(store) :
         /\ store[k].payload.project = req.project
         /\ store[k].payload.file = req.docs[1].src

\* C1 as amended: such an upload stores exactly 3 points, tagged with the
\* given project and the uploaded file name, and returns chunks = 3.
C1_ThreePoints ==
  OneDefaultUpload =>
    /\ Len(store) = 3
    /\ resp.chunks = 3
    /\ \A k \in 1..Len(store) :
         /\ store[k].payload.project = req.project
         /\ store[k].payload.file = req.docs[1].src

C1_Witness ==
  /\ OneDefaultUpload
  /\ resp.ok = TRUE
  /\ store # <<>>
  /\ req.project = "p1"

\* ---- the helpers called directly ----
EmbedTexts == { <<>>, <<" ">>, <<"a">>, <<"\t", "b">> }

\* chunks(s, size, overlap) is called
CallChunks(s, size, overlap) ==
  /\ fn' = [op |-> "chunks", s |-> s, size |-> size, overlap |-> overlap,
            out |-> chunks(s, size, overlap)]
  /\ UNCHANGED <<RUNTIME, ingestVars, cfgResp>>

\* embed_batch(text_list) is called
CallEmbedBatch(text_list, failAt) ==
  /\ LET r == embed_batch(text_list, serviceDim, failAt)
     IN  fn' = [op |-> "embed_batch", text_list |-> text_list, raised |-> r.raised,
                out |-> r.vecs, calls |-> r.calls]
  /\ UNCHANGED <<RUNTIME, ingestVars, cfgResp>>

InitFn == InitWith({DefaultRuntime})

NextFn ==
  \/ \E n \in 0..MaxLen, k \in 0..2, size \in 1..MaxSize, overlap \in 0..MaxSize :
       CallChunks(Cyc(n, k), size, overlap)
  \/ \E text_list \in SeqsUpTo(EmbedTexts, MaxList), failAt \in 0..MaxList :
       CallEmbedBatch(text_list, failAt)

SpecFn == InitFn /\ [][NextFn]_vars

\* the call was chunks(s, size, overlap) with size >= 1, 0 <= overlap < size
ValidChunksCall ==
  /\ fn.op = "chunks"
  /\ fn.size >= 1
  /\ 0 <= fn.overlap
  /\ fn.overlap < fn.size

CeilDiv(a, b) == (a + b - 1) \div b

\* C6: for size >= 1 and 0 <= overlap < size, chunks returns
\* ceil(len(text) / (size - overlap)) chunks, none for the empty text.
C6_ChunkCount ==
  ValidChunksCall =>
    /\ Len(fn.out) = CeilDiv(Len(fn.s), fn.size - fn.overlap)
    /\ fn.s = <<>> => fn.out = <<>>

C6_Witness ==
  /\ ValidChunksCall
  /\ fn.overlap > 0
  /\ Len(fn.out) >= 3
  /\ Len(fn.out) < Len(fn.s)

\* C7: for size >= 1 and 0 <= overlap < size, chunk i is
\* text[i*step : i*step + size] with step = size - overlap, consecutive chunks
\* overlap or abut, the last chunk ends at len(text), and every position of
\* the text lies in some chunk.
C7_ChunksCover ==
  ValidChunksCall =>
    LET step == fn.size - fn.overlap
        n == Len(fn.out)
        from(i) == (i - 1) * step
        upto(i) == from(i) + Len(fn.out[i])
    IN  /\ \A i \in 1..n :
             fn.out[i] = SubSeq(fn.s, from(i) + 1, Min(from(i) + fn.size, Len(fn.s)))
        /\ \A i \in 1..(n - 1) : from(i + 1) <= upto(i)
        /\ n > 0 => upto(n) = Len(fn.s)
        /\ \A pos \in 1..Len(fn.s) :
             \E i \in 1..n : /\ from(i) < pos
                             /\ pos <= upto(i)
                             /\ fn.out[i][pos - from(i)] = fn.s[pos]

C7_Witness ==
  /\ ValidChunksCall
  /\ fn.overlap > 0
  /\ Len(fn.out) >= 2
  /\ Len(fn.out[Len(fn.out)]) < fn.size

\* C8: embed_batch returns one vector per input, in order: the service's
\* vector for a non-blank input, an all-zero vector for a blank one, with one
\* POST per non-blank input in input order.
C8_EmbedAligned ==
  (fn.op = "embed_batch" /\ ~fn.raised) =>
    /\ Len(fn.out) = Len(fn.text_list)
    /\ \A i \in 1..Len(fn.text_list) :
         IF \A k \in 1..Len(fn.text_list[i]) : fn.text_list[i][k] \in Whitespace
           THEN fn.out[i].zero
           ELSE fn.out[i] = Embedding(fn.text_list[i], serviceDim)
    /\ fn.calls = SelectSeq(fn.text_list, NonBlank)

C8_Witness ==
  /\ fn.op = "embed_batch"
  /\ ~fn.raised
  /\ Len(fn.text_list) = 3
  /\ fn.text_list[1] = <<" ">>
  /\ fn.text_list[2] = <<"\t", "b">>
  /\ fn.text_list[3] = <<>>
  /\ Len(fn.calls) = 1

====
